---- MODULE Spec2Model ----
(***************************************************************************)
(* Model of app/utils/logger.py (process-wide logging configuration and    *)
(* the memoized logger factory) and of app/api/routes/health.py (liveness  *)
(* and readiness handlers).                                                *)
(***************************************************************************)
EXTENDS Integers, Sequences, FiniteSets, TLC

VARIABLES
    rootLevel,    \* logging.getLogger().level
    handlers,     \* logging.getLogger().handlers, in list order
    libLevel,     \* own level of each third-party logger
    loggerDict,   \* logging.Logger.manager.loggerDict: name -> its logger object (0: absent)
    cache,        \* lru_cache of get_logger: <<name, object>> entries, most recent first
    handed,       \* per name, the set of objects get_logger has returned for it
    lastCall,     \* the most recent call that configured the root logger, and its outcome
    lastGet,      \* the most recent get_logger call: its name, cache hit or miss
    thr,          \* per thread, where it is in its get_logger call and what it got
    pc,           \* position of the request the event loop is serving
    probe,        \* what the current readiness request has done to the vector store
    resp,         \* what the current request delivered to its caller
    reqLog,       \* log records emitted by the current request
    clock,        \* the wall clock datetime.now() reads
    stamps        \* timestamps of the last two liveness responses, latest first

logVars == <<rootLevel, handlers, libLevel, loggerDict, cache, handed, lastCall, lastGet, thr>>
timeVars == <<clock, stamps>>
reqVars == <<pc, probe, resp, reqLog, clock, stamps>>
vars == <<rootLevel, handlers, libLevel, loggerDict, cache, handed, lastCall, lastGet, thr,
          pc, probe, resp, reqLog, clock, stamps>>

(***************************************************************************)
(* Bounds                                                                  *)
(***************************************************************************)
\* most handlers other code attaches to the root logger between two calls
MaxHandlers == 3
\* entries the lru_cache of get_logger holds (maxsize of functools.lru_cache,
\* scaled down so that eviction happens with the names below)
CacheSize == 2
\* latest reading of the wall clock
MaxClock == 2

(***************************************************************************)
(* The logging module's numeric levels                                     *)
(***************************************************************************)
NOTSET == 0
DEBUG == 10
INFO == 20
WARNING == 30
ERROR == 40
CRITICAL == 50

\* the level names the docstring of setup_logging lists as valid
Recognized == {"DEBUG", "INFO", "WARNING", "ERROR", "CRITICAL"}

\* level arguments callers pass
LevelArgs == {"DEBUG", "INFO", "WARNING", "ERROR", "CRITICAL",
              "debug", "verbose", "WARN", "NOTSET", "BASIC_FORMAT", "_STYLES"}

\* str.upper() on the arguments above
Upper(s) ==
    CASE s = "debug" -> "DEBUG"
      [] s = "verbose" -> "VERBOSE"
      [] OTHER -> s

IntVal(n) == [type |-> "int", val |-> n]

\* getattr(logging, name, logging.INFO): the upper-case attributes of the
\* logging module, and the default for every other name
LoggingAttr(name) ==
    CASE name = "DEBUG" -> IntVal(DEBUG)
      [] name = "INFO" -> IntVal(INFO)
      [] name = "WARNING" -> IntVal(WARNING)
      [] name = "WARN" -> IntVal(WARNING)
      [] name = "ERROR" -> IntVal(ERROR)
      [] name = "CRITICAL" -> IntVal(CRITICAL)
      [] name = "FATAL" -> IntVal(CRITICAL)
      [] name = "NOTSET" -> IntVal(NOTSET)
      [] name = "BASIC_FORMAT" -> [type |-> "str", val |-> -1]
      [] name = "_STYLES" -> [type |-> "dict", val |-> -1]
      [] OTHER -> IntVal(INFO)

\* Logger.setLevel's check of its argument: an int is taken as the level, a
\* string that names no level is a ValueError, anything else a TypeError
CheckLevel(v) ==
    CASE v.type = "int" -> "ok"
      [] v.type = "str" -> "ValueError"
      [] OTHER -> "TypeError"

\* the value line 18 hands to root_logger.setLevel
RequestedLevel(log_level) == LoggingAttr(Upper(log_level))

(***************************************************************************)
(* Root handler list                                                       *)
(***************************************************************************)
\* a handler: what made it, and whether the most recent setup_logging made it
StreamHandler == [kind |-> "stream", fresh |-> TRUE]
ForeignHandler == [kind |-> "foreign", fresh |-> FALSE]

RemoveAt(s, i) == SubSeq(s, 1, i - 1) \o SubSeq(s, i + 1, Len(s))

\* "for handler in root_logger.handlers: root_logger.removeHandler(handler)":
\* the list iterator advances by index over the list removeHandler shrinks
RECURSIVE RemoveLoop(_, _)
RemoveLoop(hs, i) ==
    IF i > Len(hs) THEN hs ELSE RemoveLoop(RemoveAt(hs, i), i + 1)

Aged(hs) == [i \in 1..Len(hs) |-> [hs[i] EXCEPT !.fresh = FALSE]]

\* lines 20-27: the handler list after the removal loop and addHandler
ReplaceHandlers(hs) == Append(RemoveLoop(Aged(hs), 1), StreamHandler)

(***************************************************************************)
(* Logger registry                                                         *)
(***************************************************************************)
ThirdParty == <<"httpx", "httpcore", "openai", "qdrant_client", "urllib3">>
ThirdPartyNames == {ThirdParty[i] : i \in 1..Len(ThirdParty)}

\* names the application asks get_logger for
AppNames == {"app.api.routes.health", "VectorStoreService", "httpx"}
AllNames == AppNames \cup ThirdPartyNames

\* a getLogger that keeps no registry: every call constructs a Logger
RegisteredAnew(dict, name) == [dict EXCEPT ![name] = @ + 1]

\* logging.getLogger(name): the registry after the call. An entry counts the
\* Logger objects constructed for the name; the name's current object is the
\* latest of them, and an existing entry is returned as it is.
Registered(dict, name) ==
    IF dict[name] # 0 THEN dict ELSE [dict EXCEPT ![name] = 1]

\* logging.getLogger(name) for each third-party name in turn (lines 30-34)
RECURSIVE RegisterAll(_, _)
RegisterAll(dict, i) ==
    IF i > Len(ThirdParty) THEN dict
    ELSE RegisterAll(Registered(dict, ThirdParty[i]), i + 1)

\* index of name in the lru_cache, 0 when it is not cached
CacheIndex(c, name) ==
    IF \E i \in 1..Len(c) : c[i][1] = name
    THEN CHOOSE i \in 1..Len(c) : c[i][1] = name
    ELSE 0

Take(s, n) == SubSeq(s, 1, IF Len(s) < n THEN Len(s) ELSE n)

(***************************************************************************)
(* setup_logging                                                           *)
(***************************************************************************)
\* the part of the logging configuration setup_logging writes
LogState == [rootLevel |-> rootLevel, handlers |-> handlers, libLevel |-> libLevel]

\* a setup that forgets one of the third-party loggers
QuietenedButOne(lv) ==
    [n \in ThirdPartyNames |-> IF n = "urllib3" THEN lv[n] ELSE WARNING]

\* lines 29-34: every third-party logger gets its own level set to WARNING
Quietened(lv) == [n \in ThirdPartyNames |-> WARNING]

\* setup_logging(log_level) from configuration st: the configuration it leaves
\* and how it ends. setLevel (line 18) raises before anything is written.
Configured(st, log_level) ==
    LET v == RequestedLevel(log_level)
        out == CheckLevel(v)
    IN IF out # "ok"
       THEN [state |-> st, outcome |-> out]
       ELSE [state |-> [rootLevel |-> v.val,
                        handlers |-> ReplaceHandlers(st.handlers),
                        libLevel |-> Quietened(st.libLevel)],
             outcome |-> "ok"]

\* the own levels the third-party loggers have
LibLevels == {libLevel[n] : n \in ThirdPartyNames}

\* the call made into the logging module, as lastCall records it: the function,
\* its argument, the number of root handlers and the third-party levels it
\* found, and how it ended
Call(fn, arg, pre, lib, outcome) ==
    [fn |-> fn, arg |-> arg, pre |-> pre, lib |-> lib, outcome |-> outcome]

Idle == pc = "idle"

ApplySetup(fn, arg, log_level) ==
    LET post == Configured(LogState, log_level)
    IN /\ rootLevel' = post.state.rootLevel
       /\ handlers' = post.state.handlers
       /\ libLevel' = post.state.libLevel
       /\ loggerDict' = IF post.outcome = "ok" THEN RegisterAll(loggerDict, 1)
                        ELSE loggerDict
       /\ lastCall' = Call(fn, arg, Len(handlers), LibLevels, post.outcome)
       /\ UNCHANGED <<cache, handed, lastGet, thr>>

setup_logging(log_level) ==
    /\ Idle
    /\ ApplySetup("setup_logging", log_level, log_level)
    /\ UNCHANGED reqVars

\* an alias that drops its argument: setup_logging() with the default level
setup_logDefaultLevel(log_level) ==
    /\ Idle
    /\ ApplySetup("setup_log", log_level, "INFO")
    /\ UNCHANGED reqVars

\* setup_log(log_level): calls setup_logging(log_level)
setup_log(log_level) ==
    /\ Idle
    /\ ApplySetup("setup_log", log_level, log_level)
    /\ UNCHANGED reqVars

\* other code of the process attaches a handler of its own to the root logger
AttachForeignHandler ==
    /\ Idle
    /\ Len(handlers) < MaxHandlers
    /\ handlers' = Append(handlers, ForeignHandler)
    /\ lastCall' = Call("addHandler", "", Len(handlers), LibLevels, "ok")
    /\ UNCHANGED <<rootLevel, libLevel, loggerDict, cache, handed, lastGet, thr>>
    /\ UNCHANGED reqVars

\* third-party loggers whose level other code sets, and the levels it sets
LevelSetters == {"httpx", "qdrant_client"}
SetLevels == {DEBUG, ERROR}

\* other code of the process (the library itself, or its user) sets the own
\* level of a third-party logger: logging.getLogger(n).setLevel(lv)
SetLibraryLevel(n, lv) ==
    /\ Idle
    /\ libLevel[n] # lv
    /\ libLevel' = [libLevel EXCEPT ![n] = lv]
    /\ loggerDict' = Registered(loggerDict, n)
    /\ lastCall' = Call("setLevel", n, Len(handlers), LibLevels, "ok")
    /\ UNCHANGED <<rootLevel, handlers, cache, handed, lastGet, thr>>
    /\ UNCHANGED reqVars

(***************************************************************************)
(* get_logger                                                              *)
(***************************************************************************)
\* get_logger(name) under lru_cache: a cached entry is returned and becomes the
\* most recent; otherwise logging.getLogger(name) is called, its result cached
\* and the least recent entry dropped when the cache is over its size
get_logger(name) ==
    /\ Idle
    /\ LET i == CacheIndex(cache, name)
           dict == IF i # 0 THEN loggerDict ELSE Registered(loggerDict, name)
           obj == IF i # 0 THEN cache[i][2] ELSE dict[name]
       IN /\ loggerDict' = dict
          /\ cache' = IF i # 0 THEN <<cache[i]>> \o RemoveAt(cache, i)
                      ELSE Take(<<<<name, obj>>>> \o cache, CacheSize)
          /\ handed' = [handed EXCEPT ![name] = @ \cup {obj}]
          /\ lastGet' = [name |-> name, hit |-> i # 0, again |-> handed[name] # {}]
    /\ UNCHANGED <<rootLevel, handlers, libLevel, lastCall, thr>>
    /\ UNCHANGED reqVars

(***************************************************************************)
(* get_logger called from several threads                                  *)
(***************************************************************************)
Threads == {1, 2}

\* a thread outside get_logger
Outside == [pc |-> "out", name |-> "", obj |-> 0, raced |-> FALSE]

\* another thread is inside get_logger(name), past its cache miss
InFlight(t, name) ==
    \E u \in Threads \ {t} : thr[u].pc \in {"missed", "got"} /\ thr[u].name = name

\* thread t calls get_logger(name): lru_cache looks the name up. A cached
\* entry is returned at once; on a miss the wrapped function is called next.
ThreadCalls(t, name) ==
    /\ thr[t].pc = "out"
    /\ LET i == CacheIndex(cache, name)
       IN IF i # 0
          THEN /\ cache' = <<cache[i]>> \o RemoveAt(cache, i)
               /\ handed' = [handed EXCEPT ![name] = @ \cup {cache[i][2]}]
               /\ thr' = [thr EXCEPT ![t] = [pc |-> "out", name |-> name,
                                             obj |-> cache[i][2], raced |-> FALSE]]
          ELSE /\ thr' = [thr EXCEPT ![t] = [pc |-> "missed", name |-> name, obj |-> 0,
                                             raced |-> InFlight(t, name)]]
               /\ UNCHANGED <<cache, handed>>
    /\ UNCHANGED <<rootLevel, handlers, libLevel, loggerDict, lastCall, lastGet>>
    /\ UNCHANGED reqVars

\* a factory that builds the Logger itself instead of asking the registry
ThreadConstructsLogger(t) ==
    /\ thr[t].pc = "missed"
    /\ loggerDict' = RegisteredAnew(loggerDict, thr[t].name)
    /\ thr' = [thr EXCEPT ![t].pc = "got", ![t].obj = loggerDict'[thr[t].name]]
    /\ UNCHANGED <<rootLevel, handlers, libLevel, cache, handed, lastCall, lastGet>>
    /\ UNCHANGED reqVars

\* line 49 in thread t: logging.getLogger(name), which looks the name up and
\* constructs the Logger under the logging module's lock
ThreadGetsLogger(t) ==
    /\ thr[t].pc = "missed"
    /\ loggerDict' = Registered(loggerDict, thr[t].name)
    /\ thr' = [thr EXCEPT ![t].pc = "got", ![t].obj = loggerDict'[thr[t].name]]
    /\ UNCHANGED <<rootLevel, handlers, libLevel, cache, handed, lastCall, lastGet>>
    /\ UNCHANGED reqVars

\* lru_cache stores the result of thread t's call and returns it; a name that
\* another thread cached in the meantime is not stored again
ThreadReturns(t) ==
    /\ thr[t].pc = "got"
    /\ cache' = IF CacheIndex(cache, thr[t].name) # 0 THEN cache
                ELSE Take(<<<<thr[t].name, thr[t].obj>>>> \o cache, CacheSize)
    /\ handed' = [handed EXCEPT ![thr[t].name] = @ \cup {thr[t].obj}]
    /\ thr' = [thr EXCEPT ![t].pc = "out"]
    /\ UNCHANGED <<rootLevel, handlers, libLevel, loggerDict, lastCall, lastGet>>
    /\ UNCHANGED reqVars

(***************************************************************************)
(* Log records of the health module's logger                               *)
(***************************************************************************)
\* the logger of app.api.routes.health has no level of its own and no ancestor
\* with one but the root, so its effective level is the root's
EffectiveLevel == rootLevel

\* logger.debug / info / error: a record is made when the level is enabled
Emit(log, lvl, msg) ==
    IF lvl >= EffectiveLevel THEN Append(log, [level |-> lvl, msg |-> msg]) ELSE log

(***************************************************************************)
(* The vector store, as the readiness handler sees it                      *)
(***************************************************************************)
\* what get_collection_info() returns
CollectionInfos == {[name |-> "docs", count |-> 100], [name |-> "empty", count |-> 0]}

\* what VectorStoreService(), health_check() or get_collection_info() raise:
\* the exception's class, whether it is an HTTPException (and then its
\* status_code), and its text (str(e); the detail of an HTTPException)
Exceptions ==
    {[type |-> "ConnectionReset", http |-> FALSE, status |-> 0, text |-> "ConnectionReset"],
     [type |-> "ValueError", http |-> FALSE, status |-> 0, text |-> "bad vector size"],
     [type |-> "HTTPException", http |-> TRUE, status |-> 404, text |-> "Collection not found"],
     [type |-> "HTTPException", http |-> TRUE, status |-> 503, text |-> "Upstream unavailable"]}

NoProbe == [request |-> "none", built |-> 0, healthCalls |-> 0, infoCalls |-> 0,
            healthy |-> "unknown", info |-> <<>>, raised |-> <<>>]

(***************************************************************************)
(* Responses                                                               *)
(***************************************************************************)
NoResponse == [state |-> "NONE", code |-> 0, detail |-> "", body |-> <<>>]

\* ReadinessResponse(status=..., qdrant_connected=..., collection_info=...)
ReadinessResponse(status, qdrant_connected, collection_info) ==
    [status |-> status, qdrant_connected |-> qdrant_connected,
     collection_info |-> collection_info]

\* the handler returns a response body: 200
Returned(state, body) == [state |-> state, code |-> 200, detail |-> "", body |-> <<body>>]

\* the handler ends with HTTPException(status_code, detail): no body
Failed(status_code, detail) ==
    [state |-> "NOT_READY", code |-> status_code, detail |-> detail, body |-> <<>>]

(***************************************************************************)
(* readiness_check                                                         *)
(***************************************************************************)
\* a handler with the catch-all clause alone: every exception is logged and wrapped
ExceptWrapsAll(e) ==
    /\ pc' = "done"
    /\ reqLog' = Emit(reqLog, ERROR, "Readiness check failed: " \o e.text)
    /\ resp' = Failed(503, "Service not ready: " \o e.text)

\* lines 57-64: what the except clauses make of exception e raised in the try
\* block: an HTTPException is re-raised as it is, anything else is logged at
\* ERROR and becomes a 503 whose detail carries str(e)
Except(e) ==
    /\ pc' = "done"
    /\ IF e.http
       THEN /\ resp' = Failed(e.status, e.text)
            /\ UNCHANGED reqLog
       ELSE /\ reqLog' = Emit(reqLog, ERROR, "Readiness check failed: " \o e.text)
            /\ resp' = Failed(503, "Service not ready: " \o e.text)

\* line 38: the request starts
readiness_check ==
    /\ Idle
    /\ pc' = "l41"
    /\ probe' = [NoProbe EXCEPT !.request = "readiness"]
    /\ resp' = NoResponse
    /\ reqLog' = Emit(<<>>, DEBUG, "Readiness check requested")
    /\ UNCHANGED <<logVars, timeVars>>

\* a handler that asks for the collection without asking for health first
ConstructSkipsHealthCheck ==
    /\ pc = "l41"
    /\ probe' = [probe EXCEPT !.built = @ + 1]
    /\ pc' = "l50"
    /\ UNCHANGED <<resp, reqLog>>
    /\ UNCHANGED <<logVars, timeVars>>

\* line 41: vector_store = VectorStoreService() returns
Construct ==
    /\ pc = "l41"
    /\ probe' = [probe EXCEPT !.built = @ + 1]
    /\ pc' = "l42"
    /\ UNCHANGED <<resp, reqLog>>
    /\ UNCHANGED <<logVars, timeVars>>

\* line 41: VectorStoreService() raises
ConstructRaises ==
    /\ pc = "l41"
    /\ \E e \in Exceptions :
          /\ probe' = [probe EXCEPT !.raised = <<[at |-> "construct", exc |-> e]>>]
          /\ Except(e)
    /\ UNCHANGED <<logVars, timeVars>>

\* line 42: is_healthy = vector_store.health_check() returns
HealthCheckReturns ==
    /\ pc = "l42"
    /\ \E b \in BOOLEAN :
          probe' = [probe EXCEPT !.healthCalls = @ + 1,
                                 !.healthy = IF b THEN "true" ELSE "false"]
    /\ pc' = "l44"
    /\ UNCHANGED <<resp, reqLog>>
    /\ UNCHANGED <<logVars, timeVars>>

\* line 42: vector_store.health_check() raises
HealthCheckRaises ==
    /\ pc = "l42"
    /\ \E e \in Exceptions :
          /\ probe' = [probe EXCEPT !.healthCalls = @ + 1, !.healthy = "raised",
                                    !.raised = <<[at |-> "health_check", exc |-> e]>>]
          /\ Except(e)
    /\ UNCHANGED <<logVars, timeVars>>

\* line 42: vector_store.health_check() is entered and never returns (the
\* handler sets no timeout on it)
HealthCheckHangs ==
    /\ pc = "l42"
    /\ probe' = [probe EXCEPT !.healthCalls = @ + 1]
    /\ pc' = "hung"
    /\ UNCHANGED <<resp, reqLog>>
    /\ UNCHANGED <<logVars, timeVars>>

\* the HTTPException of lines 45-48
Unhealthy == [type |-> "HTTPException", http |-> TRUE, status |-> 503,
              text |-> "Vector store is not healthy"]

\* a handler without the check of is_healthy
CheckHealthyFallsThrough ==
    /\ pc = "l44"
    /\ pc' = "l50"
    /\ UNCHANGED <<probe, resp, reqLog>>
    /\ UNCHANGED <<logVars, timeVars>>

\* lines 44-48: "if not is_healthy: raise HTTPException(503, ...)"
CheckHealthy ==
    /\ pc = "l44"
    /\ IF probe.healthy # "true"
       THEN Except(Unhealthy)
       ELSE /\ pc' = "l50"
            /\ UNCHANGED <<resp, reqLog>>
    /\ UNCHANGED probe
    /\ UNCHANGED <<logVars, timeVars>>

\* line 50: collection_info = vector_store.get_collection_info() returns
GetCollectionInfoReturns ==
    /\ pc = "l50"
    /\ \E ci \in CollectionInfos :
          probe' = [probe EXCEPT !.infoCalls = @ + 1, !.info = <<ci>>]
    /\ pc' = "l52"
    /\ UNCHANGED <<resp, reqLog>>
    /\ UNCHANGED <<logVars, timeVars>>

\* line 50: vector_store.get_collection_info() raises
GetCollectionInfoRaises ==
    /\ pc = "l50"
    /\ \E e \in Exceptions :
          /\ probe' = [probe EXCEPT !.infoCalls = @ + 1,
                                    !.raised = <<[at |-> "get_collection_info", exc |-> e]>>]
          /\ Except(e)
    /\ UNCHANGED <<logVars, timeVars>>

\* line 50: vector_store.get_collection_info() is entered and never returns
GetCollectionInfoHangs ==
    /\ pc = "l50"
    /\ probe' = [probe EXCEPT !.infoCalls = @ + 1]
    /\ pc' = "hung"
    /\ UNCHANGED <<resp, reqLog>>
    /\ UNCHANGED <<logVars, timeVars>>

\* a response that always reports the first collection
RespondWithFixedInfo ==
    /\ pc = "l52"
    /\ resp' = Returned("READY",
                        ReadinessResponse("ready", TRUE, [name |-> "docs", count |-> 100]))
    /\ pc' = "done"
    /\ UNCHANGED <<probe, reqLog>>
    /\ UNCHANGED <<logVars, timeVars>>

\* lines 52-56: return ReadinessResponse(...)
Respond ==
    /\ pc = "l52"
    /\ resp' = Returned("READY", ReadinessResponse("ready", TRUE, probe.info[1]))
    /\ pc' = "done"
    /\ UNCHANGED <<probe, reqLog>>
    /\ UNCHANGED <<logVars, timeVars>>

(***************************************************************************)
(* health_check (the liveness endpoint)                                    *)
(***************************************************************************)
\* HealthResponse(status=..., timestamp=..., version=...)
HealthResponse(status, timestamp, version) ==
    [status |-> status, timestamp |-> timestamp, version |-> version]

\* app.__version__
Version == "__version__"

\* a liveness handler that logs at DEBUG
health_checkLogsDebug ==
    /\ Idle
    /\ reqLog' = Emit(<<>>, DEBUG, "Health check requested")
    /\ resp' = Returned("HEALTHY", HealthResponse("healthy", clock, Version))
    /\ stamps' = Take(<<clock>> \o stamps, 2)
    /\ probe' = [NoProbe EXCEPT !.request = "liveness"]
    /\ pc' = "done"
    /\ UNCHANGED <<logVars, clock>>

\* lines 19-26: timestamp=datetime.now() is the wall clock's reading
health_check ==
    /\ Idle
    /\ reqLog' = Emit(<<>>, INFO, "Health check requested")
    /\ resp' = Returned("HEALTHY", HealthResponse("healthy", clock, Version))
    /\ stamps' = Take(<<clock>> \o stamps, 2)
    /\ probe' = [NoProbe EXCEPT !.request = "liveness"]
    /\ pc' = "done"
    /\ UNCHANGED <<logVars, clock>>

\* time passes
ClockAdvances ==
    /\ clock < MaxClock
    /\ clock' = clock + 1
    /\ UNCHANGED <<logVars, pc, probe, resp, reqLog, stamps>>

\* the wall clock is set back: local time at the end of daylight saving, or a
\* correction of the system time
ClockSetBack ==
    /\ \E t \in 0..(clock - 1) : clock' = t
    /\ UNCHANGED <<logVars, pc, probe, resp, reqLog, stamps>>

\* the response has gone to the caller; the event loop takes the next request
Finish ==
    /\ pc = "done"
    /\ pc' = "idle"
    /\ probe' = NoProbe
    /\ resp' = NoResponse
    /\ reqLog' = <<>>
    /\ UNCHANGED <<logVars, timeVars>>

(***************************************************************************)
(* Specifications                                                          *)
(***************************************************************************)
HealthModule == "app.api.routes.health"

\* the process after its modules are imported: the logging module's defaults
\* (root at WARNING, no handler), and line 9 of health.py has called
\* get_logger(__name__)
Init ==
    /\ rootLevel = WARNING
    /\ handlers = <<>>
    /\ libLevel = [n \in ThirdPartyNames |-> NOTSET]
    /\ loggerDict = [n \in AllNames |-> IF n = HealthModule THEN 1 ELSE 0]
    /\ cache = <<<<HealthModule, 1>>>>
    /\ handed = [n \in AppNames |-> IF n = HealthModule THEN {1} ELSE {}]
    /\ lastCall = Call("none", "", 0, {NOTSET}, "ok")
    /\ lastGet = [name |-> HealthModule, hit |-> FALSE, again |-> FALSE]
    /\ thr = [t \in Threads |-> Outside]
    /\ pc = "idle"
    /\ probe = NoProbe
    /\ resp = NoResponse
    /\ reqLog = <<>>
    /\ clock = 0
    /\ stamps = <<>>

\* the logging module under every use the process makes of it
NextLogging ==
    \/ \E l \in LevelArgs : setup_logging(l)
    \/ \E l \in LevelArgs : setup_log(l)
    \/ AttachForeignHandler
    \/ \E n \in AppNames : get_logger(n)

SpecLogging == Init /\ [][NextLogging]_vars

\* the levels of the logging configuration: set by setup_logging / setup_log
\* and, for third-party loggers, by other code
NextLevels ==
    \/ \E l \in LevelArgs : setup_logging(l)
    \/ \E l \in LevelArgs : setup_log(l)
    \/ \E n \in LevelSetters, lv \in SetLevels : SetLibraryLevel(n, lv)

SpecLevels == Init /\ [][NextLevels]_vars

\* get_logger called from threads that interleave at every step of the call
NextThreads ==
    \/ \E t \in Threads, n \in AppNames : ThreadCalls(t, n)
    \/ \E t \in Threads : ThreadGetsLogger(t)
    \/ \E t \in Threads : ThreadReturns(t)

SpecThreads == Init /\ [][NextThreads]_vars

\* the service: logging is configured, requests are served one at a time by
\* the event loop
NextService ==
    \/ \E l \in LevelArgs : setup_logging(l)
    \/ \E l \in LevelArgs : setup_log(l)
    \/ readiness_check
    \/ Construct
    \/ ConstructRaises
    \/ HealthCheckReturns
    \/ HealthCheckRaises
    \/ CheckHealthy
    \/ GetCollectionInfoReturns
    \/ GetCollectionInfoRaises
    \/ Respond
    \/ HealthCheckHangs
    \/ GetCollectionInfoHangs
    \/ health_check
    \/ Finish
    \/ ClockAdvances
    \/ ClockSetBack

SpecService == Init /\ [][NextService]_vars

\* a step of the readiness handler past its start
HandlerStep ==
    \/ Construct
    \/ ConstructRaises
    \/ HealthCheckReturns
    \/ HealthCheckRaises
    \/ CheckHealthy
    \/ GetCollectionInfoReturns
    \/ GetCollectionInfoRaises
    \/ Respond
    \/ HealthCheckHangs
    \/ GetCollectionInfoHangs

(***************************************************************************)
(* Properties of the logging configuration                                 *)
(***************************************************************************)
SetupFns == {"setup_logging", "setup_log"}

\* the last thing done to the root logger was a call of setup_logging / setup_log
AfterSetup == lastCall.fn \in SetupFns

\* C1: after any number N >= 1 of setup_logging / setup_log calls, with any
\* level arguments, the root logger has exactly one handler.
C1_ExactlyOneHandler == AfterSetup => Len(handlers) = 1

\* C2: a setup_logging call that returns detaches every handler attached
\* before it, however many there were: the handler list is then just the
\* stream handler the call created.
C2_OnlyTheNewHandler ==
    (AfterSetup /\ lastCall.outcome = "ok") => handlers = <<StreamHandler>>

\* C3: for every level whose upper-case form is not one of DEBUG, INFO,
\* WARNING, ERROR, CRITICAL, setup_logging(level) leaves the configuration
\* setup_logging("INFO") leaves from the same pre-state, and ends as it ends.
C3_UnrecognizedIsInfo ==
    [][\A l \in LevelArgs :
          (Upper(l) \notin Recognized /\ setup_logging(l)) =>
              LET info == Configured(LogState, "INFO")
              IN /\ rootLevel' = info.state.rootLevel
                 /\ handlers' = info.state.handlers
                 /\ libLevel' = info.state.libLevel
                 /\ lastCall'.outcome = info.outcome]_vars

\* C4: setup_logging(level) returns normally for every string level.
C4_NeverRaises == AfterSetup => lastCall.outcome = "ok"

\* C5: every name has at most one handle: all get_logger calls made for it so
\* far, whatever calls came between them, returned the same object.
C5_SameHandle == \A n \in AppNames : Cardinality(handed[n]) <= 1

\* C5's case: a name handed out before is asked for again after the lru_cache
\* dropped it, with setup_logging called in between
C5_Witness ==
    /\ lastGet.again
    /\ ~lastGet.hit
    /\ loggerDict["urllib3"] # 0
    /\ Cardinality(handed[lastGet.name]) = 1

\* C10: setup_log(level) leaves the root threshold, the root handlers and the
\* third-party levels that setup_logging(level) leaves from the same pre-state,
\* and ends as it ends (normal return or the same error).
C10_AliasSameSemantics ==
    [][\A l \in LevelArgs :
          setup_log(l) =>
              LET post == Configured(LogState, l)
              IN /\ rootLevel' = post.state.rootLevel
                 /\ handlers' = post.state.handlers
                 /\ libLevel' = post.state.libLevel
                 /\ lastCall'.outcome = post.outcome]_vars

\* C10's case: setup_log has replaced the handlers of a root logger that had
\* several, at a level other than the default
C10_Witness ==
    /\ lastCall.fn = "setup_log"
    /\ lastCall.arg = "DEBUG"
    /\ lastCall.pre >= 2
    /\ rootLevel = DEBUG

(***************************************************************************)
(* Properties of the readiness check                                       *)
(***************************************************************************)
\* a readiness request has delivered its outcome
ReadinessDone == pc = "done" /\ probe.request = "readiness"

\* the exception get_collection_info() raised in this request, if it did
InfoRaised == probe.raised # <<>> /\ probe.raised[1].at = "get_collection_info"

ErrorRecords == {i \in DOMAIN reqLog : reqLog[i].level = ERROR}

\* C6: once health_check() has returned false, get_collection_info() is not
\* invoked in the request, and the request ends NOT_READY with status 503 and
\* no response body.
C6_UnhealthyIsNotReady ==
    probe.healthy = "false" =>
        /\ probe.infoCalls = 0
        /\ pc \in {"l44", "done"}
        /\ pc = "done" => /\ resp.state = "NOT_READY"
                          /\ resp.code = 503
                          /\ resp.body = <<>>

\* C6's case: a readiness request ended after health_check() returned false
C6_Witness == ReadinessDone /\ probe.healthy = "false"

\* C7: when health_check() returned true and get_collection_info() raised e,
\* the request ends NOT_READY with status 503 and detail "Service not ready: "
\* followed by str(e), and exactly one ERROR record, carrying the cause text,
\* was emitted.
C7_InfoFailureIs503AndLogged ==
    (ReadinessDone /\ probe.healthy = "true" /\ InfoRaised) =>
        LET e == probe.raised[1].exc
        IN /\ resp.state = "NOT_READY"
           /\ resp.code = 503
           /\ resp.detail = "Service not ready: " \o e.text
           /\ Cardinality(ErrorRecords) = 1
           /\ \A i \in ErrorRecords : reqLog[i].msg = "Readiness check failed: " \o e.text

\* C8: a readiness request ends READY, with status 200, status "ready" and
\* qdrant_connected true, exactly when health_check() returned true and
\* get_collection_info() returned; collection_info is then the value it returned.
C8_ReadyIffProbesSucceed ==
    ReadinessDone =>
        /\ resp.state = "READY" <=> (probe.healthy = "true" /\ probe.info # <<>>)
        /\ resp.state = "READY" =>
              /\ resp.code = 200
              /\ resp.body = <<ReadinessResponse("ready", TRUE, probe.info[1])>>

\* C8's case: a READY response carrying the second collection
C8_Witness ==
    /\ ReadinessDone
    /\ resp.state = "READY"
    /\ probe.info = <<[name |-> "empty", count |-> 0]>>

\* C9: every readiness request that does not end READY ends with status 503.
C9_FailureIs503 == (ReadinessDone /\ resp.state # "READY") => resp.code = 503

(***************************************************************************)
(* Properties of the liveness endpoint                                     *)
(***************************************************************************)
\* a liveness request has delivered its outcome
LivenessDone == pc = "done" /\ probe.request = "liveness"

\* the response every liveness call gives, and no touch of the vector store
HealthyUntouched ==
    /\ resp.state = "HEALTHY"
    /\ resp.code = 200
    /\ resp.body[1].status = "healthy"
    /\ resp.body[1].version = Version
    /\ probe.built = 0
    /\ probe.healthCalls = 0
    /\ probe.infoCalls = 0
    /\ probe.raised = <<>>

InfoRecord == [level |-> INFO, msg |-> "Health check requested"]

\* C11 as stated: every liveness call returns "healthy" with the static
\* version, emits exactly one INFO record and never touches the vector store.
C11_AlwaysOneInfoRecord ==
    LivenessDone => (HealthyUntouched /\ reqLog = <<InfoRecord>>)

\* C11, amended: every liveness call returns "healthy" with the static
\* version and never touches the vector store; it emits exactly one INFO
\* record when the root threshold is INFO or lower, and none when it is higher.
C11_OneInfoRecordWhenEnabled ==
    LivenessDone =>
        /\ HealthyUntouched
        /\ reqLog = IF rootLevel <= INFO THEN <<InfoRecord>> ELSE <<>>

\* C11's case: a liveness call answered under a root threshold of DEBUG
C11_Witness == LivenessDone /\ rootLevel = DEBUG /\ Len(reqLog) = 1

\* C12: over sequential liveness calls the response timestamps never decrease.
C12_TimestampsNonDecreasing == Len(stamps) = 2 => stamps[1] >= stamps[2]

(***************************************************************************)
(* Properties of the readiness check's failure paths and call order        *)
(***************************************************************************)
\* C13: the failure raised for an unhealthy store reaches the caller as it was
\* raised: status 503, detail exactly "Vector store is not healthy", no
\* "Service not ready: " wrapping and no ERROR record.
C13_UnhealthyPassesThrough ==
    (ReadinessDone /\ probe.healthy = "false") =>
        /\ resp = Failed(503, "Vector store is not healthy")
        /\ ErrorRecords = {}

\* C13's case: an unhealthy store under a threshold that lets ERROR records out
C13_Witness == ReadinessDone /\ probe.healthy = "false" /\ rootLevel = DEBUG

\* C14: an exception of any type raised by VectorStoreService(), health_check()
\* or get_collection_info() ends the request with status 503 and detail
\* "Service not ready: <str(cause)>", logged exactly once at ERROR with the
\* cause; get_collection_info() is not invoked when the exception came from
\* construction or from health_check().
C14_AnyExceptionIsWrapped ==
    (ReadinessDone /\ probe.raised # <<>>) =>
        LET r == probe.raised[1]
        IN /\ resp = Failed(503, "Service not ready: " \o r.exc.text)
           /\ Cardinality(ErrorRecords) = 1
           /\ \A i \in ErrorRecords :
                 reqLog[i].msg = "Readiness check failed: " \o r.exc.text
           /\ r.at \in {"construct", "health_check"} => probe.infoCalls = 0

\* within a request: at most one client, health_check() only on a constructed
\* client and at most once, get_collection_info() at most once and only after
\* health_check() returned true
ProbeOrder ==
    /\ probe.built <= 1
    /\ probe.healthCalls <= 1
    /\ probe.infoCalls <= 1
    /\ probe.healthCalls = 1 => probe.built = 1
    /\ probe.infoCalls = 1 => (probe.healthCalls = 1 /\ probe.healthy = "true")

ConstructRaised == probe.raised # <<>> /\ probe.raised[1].at = "construct"

\* C15 as stated: the probe calls are ordered, and every outcome comes after
\* health_check() was invoked exactly once and has returned or raised.
C15_OutcomeAfterHealthCheck ==
    /\ ProbeOrder
    /\ ReadinessDone => (probe.healthCalls = 1 /\ probe.healthy # "unknown")

\* C15, amended: the probe calls are ordered, and every outcome comes after
\* health_check() was invoked exactly once and has returned or raised, unless
\* VectorStoreService() itself raised: then the outcome is the failure, and
\* neither health_check() nor get_collection_info() was invoked.
C15_OutcomeAfterHealthCheckOrConstructFailure ==
    /\ ProbeOrder
    /\ ReadinessDone =>
          IF ConstructRaised
          THEN probe.built = 0 /\ probe.healthCalls = 0 /\ probe.infoCalls = 0
               /\ resp.state = "NOT_READY"
          ELSE probe.healthCalls = 1 /\ probe.healthy # "unknown"

\* C15's case: a request that went through both calls, the second one raising
C15_Witness ==
    /\ ReadinessDone
    /\ probe.built = 1
    /\ probe.healthCalls = 1
    /\ probe.infoCalls = 1
    /\ InfoRaised

(***************************************************************************)
(* Properties of the third-party logger levels                             *)
(***************************************************************************)
\* a call of setup_logging / setup_log has just returned normally
SetupReturned == AfterSetup /\ lastCall.outcome = "ok"

\* C16: after every setup_logging call that returns, each of httpx, httpcore,
\* openai, qdrant_client and urllib3 has its own level at WARNING, whatever
\* level it or the root logger had before.
C16_ThirdPartyAtWarning ==
    SetupReturned => \A n \in ThirdPartyNames : libLevel[n] = WARNING

\* C16's case: setup_logging at a level below WARNING found third-party
\* loggers at DEBUG and at ERROR
C16_Witness ==
    /\ SetupReturned
    /\ {DEBUG, ERROR} \subseteq lastCall.lib
    /\ rootLevel = DEBUG

\* the threshold a third-party logger applies: its own level, or the root's
\* (its parent's) when it has none
LibEffective(n) == IF libLevel[n] # NOTSET THEN libLevel[n] ELSE rootLevel

\* C20: after setup_logging(level), for every recognized level, the effective
\* threshold of each third-party logger is at least the root threshold.
C20_ThirdPartyNeverBelowRoot ==
    (SetupReturned /\ Upper(lastCall.arg) \in Recognized) =>
        \A n \in ThirdPartyNames : LibEffective(n) >= rootLevel

(***************************************************************************)
(* Properties of get_logger under racing threads                           *)
(***************************************************************************)
\* C17: when threads race to get_logger(x) for a name not yet registered, at
\* most one Logger is ever constructed for x and every caller receives it.
C17_OneConstructionPerName ==
    /\ \A n \in AppNames : loggerDict[n] <= 1 /\ Cardinality(handed[n]) <= 1
    /\ \A t, u \in Threads :
          (thr[t].obj # 0 /\ thr[u].obj # 0 /\ thr[t].name = thr[u].name)
              => thr[t].obj = thr[u].obj

\* C17's case: two threads have returned from get_logger for the same name,
\* one of them having missed the cache while the other was past its own miss
C17_Witness ==
    \E t, u \in Threads :
        /\ t # u
        /\ thr[t].pc = "out" /\ thr[u].pc = "out"
        /\ thr[t].raced
        /\ thr[t].name = thr[u].name
        /\ thr[t].name # HealthModule
        /\ thr[t].obj # 0 /\ thr[u].obj # 0

(***************************************************************************)
(* Properties of progress on the event loop                                *)
(***************************************************************************)
\* a readiness request is being served and has no outcome yet
ReadinessPending == probe.request = "readiness" /\ pc # "done"

\* C18: every readiness check reaches its outcome: while it has none it can
\* always take its next step, so a dependency call that never returns cannot
\* block it.
C18_CheckNeverBlocked == ReadinessPending => ENABLED HandlerStep

\* the readiness request is inside health_check() or get_collection_info()
InsideProbeCall == probe.request = "readiness" /\ pc \in {"l42", "l50", "hung"}

\* C19: a liveness request that arrives while a readiness check is inside its
\* call of health_check() or get_collection_info() is answered without
\* waiting for the readiness check's outcome.
C19_LivenessAnsweredDuringProbe == InsideProbeCall => ENABLED health_check

====
